---- MODULE Spec2Model ----
(***************************************************************************)
(* Collection orchestration subsystem of SwellForecaster:                  *)
(*   - Ctx.fetch of collector_revised.py (retry, backoff, throttle, TLS)   *)
(*   - collect of collector_revised.py and DataCollector.collect           *)
(*   - the HTTP client gates of forecast_tool/utils/http.py                *)
(* Time is kept in whole seconds and relative: a sleeping task holds the   *)
(* seconds it still has to sleep, and a timestamp is kept as the seconds   *)
(* elapsed since it was taken, saturating at the throttle interval (the    *)
(* only value it is ever compared with).                                   *)
(***************************************************************************)
EXTENDS Integers, Sequences, FiniteSets, TLC

\* ------------------------------------------------------------------ bounds
MaxRetries == 3      \* GENERAL.max_retries ranges over 0..MaxRetries
MaxThrottle == 2     \* GENERAL.windy_throttle_seconds ranges over 1..MaxThrottle
MaxRuns == 2         \* runs of the collector, one after the other
MaxSaves == 1        \* results an agent records in one run
MaxConcurrent == 2   \* concurrent_requests ranges over 1..MaxConcurrent
MaxBundles == 3      \* invocations whose setup is followed
MaxDays == 2         \* --cache-days ranges over 0..MaxDays
MaxAge == 8          \* a directory's age in days is counted up to MaxAge
MaxCalls == 2        \* save calls of one agent

\* http.py line 168: asyncio.Semaphore(10)
DefaultSemaphore == 10

\* collection_context.py line 106: self._prune_old_bundles(days=7)
DefaultRetention == 7

\* The agent tasks that call Ctx.fetch concurrently.
Tasks == { "t1", "t2" }

Min(a, b) == IF a < b THEN a ELSE b

\* ------------------------------------------------------------------ hosts
\* A host name is the sequence of its dot-separated labels.
Hosts ==
    { <<"api", "windy", "com">>,
      <<"api", "stormglass", "io">>,
      <<"tgftp", "nws", "noaa", "gov">> }

\* The SSL_EXCEPTIONS.disable_verification lists tried (sets of domains).
PolicySets ==
    { {},
      { <<"noaa", "gov">> },
      { <<"tgftp", "nws", "noaa", "gov">> } }

\* "windy.com" in host
HasWindyCom(h) ==
    \E i \in 1..(Len(h) - 1) : h[i] = "windy" /\ h[i + 1] = "com"

\* "windy" in host  /  "stormglass" in host
HasLabel(h, l) == \E i \in 1..Len(h) : h[i] = l

\* The walk of ssl_context_for_url: the domain itself, then each parent
\* obtained by dropping the leftmost label.
ParentWalk(h) == { SubSeq(h, i, Len(h)) : i \in 1..Len(h) }

\* ssl_context_for_url(url, ssl_exception_domains): TRUE = verify (the
\* default context), FALSE = ctx.no_verify_ssl.  Defined inside collect and
\* called from nowhere.
ssl_context_for_url(h, domains) ==
    IF domains = {} THEN TRUE
    ELSE ~(\E d \in ParentWalk(h) : d \in domains)

\* ------------------------------------------------------------- Ctx.fetch
Statuses == { "200", "404", "403", "400", "429", "500", "302" }
\* "read" is a 200 response whose body read (r.read()) raises.
Exceptions == { "cert", "conn", "timeout", "other", "read" }
Outcomes == Statuses \cup Exceptions

\* The hosts the throttle gate of Ctx.fetch applies to.
Throttled == { h \in Hosts : HasWindyCom(h) }

\* The hosts each task fetches from.  Calls to hosts without a gate share no
\* state with one another, so one task ranges over every host and the other
\* over the throttled ones.
HostsOf(t) == IF t = "t1" THEN Hosts ELSE Throttled

VARIABLES
    retries,      \* Ctx.retries
    throttle,     \* Ctx.throttle
    cfg_ssl,      \* SSL_EXCEPTIONS.disable_verification of the config
    gap,          \* throttled host -> seconds since Ctx.last_call[host],
                  \* saturating (line 79 stamps every host; the gate of
                  \* lines 45-48 reads the stamps of these hosts only)
    ft,           \* task -> position and locals of its Ctx.fetch call
    \* Observers of the throttled hosts (seconds since the event, saturating
    \* at the throttle; saturated also when the event never happened):
    reqAge,       \* a request to the host was issued
    gateAge,      \* a fetch to the host went past the throttle gate
    audit         \* whether each call keeps the history of its 200 responses
                  \* and of its writes of last_call (got200, stamped)

fetchVars == <<retries, throttle, cfg_ssl, gap, ft, reqAge, gateAge, audit>>

VARIABLES
    mode,         \* which collector runs: "legacy" or "ctx"
    run,          \* number of the current run (its run_id), 0 before the first
    rpc,          \* "idle", "running" (awaiting the agent tasks), "writing"
                  \* (metadata and pointer), "finishing" (teardown), "closing"
                  \* (the sessions are closed one by one), "returned"
    ret,          \* what collect gave its caller: "bundle", "None", "raised"
    enabled,      \* the agents the configuration enables
    task,         \* task name -> st ("off", "pending", "returned", "raised",
                  \* "cancelled"), seen (the collector has its outcome) and
                  \* out (the result list the agent has built)
    results,      \* the collector's results list
    wr,           \* the writes of metadata.json (meta) and latest_bundle.txt
                  \* (ptr): "idle", "todo", "open", "done", "failed", "cancelled"
    fs,           \* run -> its bundle directory in data_dir
    pointer,      \* latest_bundle.txt: st ("absent", "open", "complete"), id
    exit_code,    \* "none" while the process runs, then the entry point that
                  \* was invoked and the status it exited with
    sessions,     \* the aiohttp client sessions that are open
    body_exc      \* an exception has left the body of "async with
                  \* CollectionContext(...)"

\* What the run's end adds to its state.
endVars == <<exit_code, sessions, body_exc>>

runVars == <<mode, run, rpc, ret, enabled, task, results, wr, fs, pointer,
             endVars>>

VARIABLES
    concurrent_requests,   \* argument of setup_http_client
    http_ssl,              \* its ssl_exceptions argument
    domain_semaphores,     \* _DOMAIN_SEMAPHORES: domain -> free permits
    rate_limiters,         \* _RATE_LIMITERS: domain -> free permits
    rate_release,          \* domain -> releases scheduled with call_later
    hc,                     \* caller -> position in http_get and its host
    rate_limits,  \* rate_limits of setup_http_client: domain -> seconds
    pass_age      \* whole seconds since a caller last passed the limiter

httpVars == <<concurrent_requests, http_ssl, domain_semaphores, rate_limiters,
              rate_release, hc,
             rate_limits, pass_age>>

VARIABLES
    setup_mode,   \* the collector whose setup runs: "legacy" or "ctx"
    cache_days,   \* --cache-days of the latest invocation
    bundles,      \* the bundles made so far; the latest is the current one
    data_dir,     \* bundle -> its directory in data_dir
    age,          \* bundle -> whole days since the directory's mtime
    setup_out     \* the latest setup: ret ("none" before the first, "ok" when
                  \* the run went on to its agents, "raised" when an
                  \* exception left collect) and the failure met while pruning

setupVars == <<setup_mode, cache_days, bundles, data_dir, age, setup_out>>

VARIABLES
    save_ctx,     \* the context whose save is called: "legacy" (Ctx) or "ctx"
    disk,         \* relative path -> the file in the bundle directory
    subdirs,      \* the subdirectories of the bundle directory
    sv            \* caller -> its save call

saveVars == <<save_ctx, disk, subdirs, sv>>

VARIABLES
    sel_mode,     \* the collector that selects its agents: "legacy" or "ctx"
    sources,      \* the feature flags of [SOURCES] that are set to true
    api_keys,     \* the keys of [API] that hold a value
    started,      \* the agents started as tasks of the run
    selected      \* the selection has run

selVars == <<sel_mode, sources, api_keys, started, selected>>

VARIABLES
    max_retries,  \* general.max_retries of the settings
    bf_policy,    \* ssl_exceptions: the hosts of the no-verify policy
    bf            \* the call of BaseAgent.fetch_and_save / utils.http.fetch

bfVars == <<max_retries, bf_policy, bf>>

\* pc: "idle", "gate" (asleep at line 48), "inflight" (awaiting the request
\* of lines 73-76), "backoff" (asleep at lines 101-128), "done" (returned).
\* reqs, slept, waited: the requests issued, the backoff sleeps asked for and
\* the seconds spent in them, in this call.
\* overlap: while at the gate, whether another fetch to the host has been
\* under way at any time since this call began.
\* got200: a response with status 200 has arrived in this call;
\* stamped: this call has written last_call[host].
IdleRec ==
    [ pc |-> "idle", host |-> <<>>, attempt |-> 0, timer |-> 0,
      ssl_exception_domains |-> {}, verify |-> TRUE,
      reqs |-> 0, slept |-> <<>>, waited |-> 0, result |-> "none",
      overlap |-> FALSE, got200 |-> FALSE, stamped |-> FALSE ]

\* lines 45-48: the seconds the caller sleeps at the throttle gate
GateDelay(h) ==
    IF HasWindyCom(h) /\ gap[h] < throttle THEN throttle - gap[h] ELSE 0

\* line 56: for attempt in range(self.retries) -- is a an attempt of the loop?
InRangeOff(a) == a <= retries
InRange(a) == a < retries

\* lines 98, 112, 118, 124, 128: the backoff after attempt a (0-based)
BackoffFlat(a) == 1
Backoff(a) == 2 ^ a

\* lines 78-128: what the outcome of one attempt leads to
\*   "body"  return the body      "none"  return None
\*   "retry" sleep Backoff(attempt), then the next attempt
\*   "raise" no handler takes the exception: it leaves fetch
\* The handler of line 125 takes every exception the others leave.
TriageNoCatchAll(o, h) ==
    IF o = "200" THEN "body"
    ELSE IF o \in { "404", "403" } THEN "none"
    ELSE IF o = "400" /\ (HasLabel(h, "windy") \/ HasLabel(h, "stormglass")) THEN "none"
    ELSE IF o \in { "400", "429", "500" } THEN "retry"
    ELSE IF o \in Statuses THEN "none"
    ELSE IF o \in { "cert", "conn", "timeout" } THEN "retry"
    ELSE "raise"
TriageRetry404(o, h) ==
    IF o = "200" THEN "body"
    ELSE IF o = "403" THEN "none"
    ELSE IF o = "400" /\ (HasLabel(h, "windy") \/ HasLabel(h, "stormglass")) THEN "none"
    ELSE IF o \in { "404", "400", "429", "500" } THEN "retry"
    ELSE IF o \in Statuses THEN "none"
    ELSE "retry"
Triage(o, h) ==
    IF o = "200" THEN "body"
    ELSE IF o = "404" THEN "none"
    ELSE IF o = "403" THEN "none"
    ELSE IF o = "400" /\ HasLabel(h, "windy") THEN "none"
    ELSE IF o = "400" /\ HasLabel(h, "stormglass") THEN "none"
    ELSE IF o \in { "400", "429", "500" } THEN "retry"
    ELSE IF o \in Statuses THEN "none"
    ELSE "retry"

\* The response carries status 200 ("read": its body cannot be read).
Is200(o) == o \in { "200", "read" }

\* lines 78-80: whether the outcome of an attempt writes last_call[host];
\* the write of line 79 precedes the read of the body at line 80.
StampsAfterRead(o) == o = "200"
Stamps(o) == o = "200" \/ o = "read"

\* lines 59-65: the ssl argument of the request (TRUE = verify)
VerifyFor(h, domains) == ~(h \in domains)

\* The call returns v: only what the caller can observe is kept.
Returned(r, v) ==
    [r EXCEPT !.pc = "done", !.result = v, !.attempt = 0, !.timer = 0,
              !.ssl_exception_domains = {}, !.verify = TRUE,
              !.overlap = FALSE]

\* The call issues the request of attempt r.attempt, or leaves the loop
\* (line 129) when the attempts are used up.
Attempt(r) ==
    IF InRange(r.attempt)
    THEN [r EXCEPT !.pc = "inflight",
                   !.verify = VerifyFor(r.host, r.ssl_exception_domains),
                   !.reqs = @ + 1, !.timer = 0,
                   !.overlap = FALSE]
    ELSE Returned(r, "None")

Issues(r) == Attempt(r).pc = "inflight"

ActiveOn(t, h) == ft[t].pc \notin { "idle", "done" } /\ ft[t].host = h

Stamp(f, h) == IF h \in DOMAIN f THEN [f EXCEPT ![h] = 0] ELSE f

\* A fetch call starts: the throttle gate (lines 44-48), the policy set
\* (lines 50-54) and, unless the gate sleeps, the first attempt.
FetchStart(t, h) ==
    /\ ft[t].pc = "idle"
    /\ LET d == GateDelay(h)
           r0 == [IdleRec EXCEPT !.host = h, !.ssl_exception_domains = cfg_ssl]
           r1 == IF d > 0
                 THEN [r0 EXCEPT !.pc = "gate", !.timer = d,
                                 !.overlap = \E u \in Tasks \ {t} : ActiveOn(u, h)]
                 ELSE Attempt(r0)
       IN /\ ft' = [u \in Tasks |->
                      IF u = t THEN r1
                      ELSE IF ft[u].pc = "gate" /\ ft[u].host = h
                           THEN [ft[u] EXCEPT !.overlap = TRUE]
                           ELSE ft[u]]
          /\ reqAge' = IF d = 0 /\ Issues(r0) THEN Stamp(reqAge, h) ELSE reqAge
          /\ gateAge' = IF d = 0 THEN Stamp(gateAge, h) ELSE gateAge
    /\ UNCHANGED <<retries, throttle, cfg_ssl, audit, gap, runVars, httpVars, setupVars, saveVars,
                   selVars, bfVars>>

\* The gate's sleep is over (line 48 returns): the first attempt.
GateWake(t) ==
    /\ ft[t].pc = "gate"
    /\ ft[t].timer = 0
    /\ LET h == ft[t].host
       IN /\ ft' = [ft EXCEPT ![t] = Attempt(ft[t])]
          /\ reqAge' = IF Issues(ft[t]) THEN Stamp(reqAge, h) ELSE reqAge
          /\ gateAge' = Stamp(gateAge, h)
    /\ UNCHANGED <<retries, throttle, cfg_ssl, audit, gap, runVars, httpVars, setupVars, saveVars,
                   selVars, bfVars>>

\* The request of the current attempt ends with outcome o (lines 73-128).
Respond(t, o) ==
    /\ ft[t].pc = "inflight"
    /\ LET h == ft[t].host
           k == Triage(o, h)
           r == [ft[t] EXCEPT !.got200 = @ \/ (audit /\ Is200(o)),
                              !.stamped = @ \/ (audit /\ Stamps(o))]
       IN /\ ft' = [ft EXCEPT ![t] =
                IF k = "body" THEN Returned(r, "body")
                ELSE IF k = "none" THEN Returned(r, "None")
                ELSE IF k = "raise" THEN Returned(r, "raised")
                ELSE [r EXCEPT !.pc = "backoff",
                               !.timer = Backoff(r.attempt),
                               !.slept = Append(@, Backoff(r.attempt)),
                               !.ssl_exception_domains =
                                   IF o = "cert" THEN @ \cup {h} ELSE @]]
          \* line 79: a 200 stamps last_call before the body is read
          /\ gap' = IF Stamps(o) THEN Stamp(gap, h) ELSE gap
    /\ UNCHANGED <<retries, throttle, cfg_ssl, audit, reqAge, gateAge, runVars, httpVars, setupVars, saveVars,
                   selVars, bfVars>>

\* The backoff sleep is over: the next iteration of the loop.
BackoffWake(t) ==
    /\ ft[t].pc = "backoff"
    /\ ft[t].timer = 0
    /\ LET r == [ft[t] EXCEPT !.attempt = @ + 1]
       IN /\ ft' = [ft EXCEPT ![t] = Attempt(r)]
          /\ reqAge' = IF Issues(r) THEN Stamp(reqAge, r.host) ELSE reqAge
    /\ UNCHANGED <<retries, throttle, cfg_ssl, audit, gap, gateAge, runVars, httpVars, setupVars, saveVars,
                   selVars, bfVars>>

\* The caller takes the value fetch returned.
FetchReturn(t) ==
    /\ ft[t].pc = "done"
    /\ ft' = [ft EXCEPT ![t] = IdleRec]
    /\ UNCHANGED <<retries, throttle, cfg_ssl, audit, gap, reqAge, gateAge, runVars, httpVars, setupVars, saveVars,
                   selVars, bfVars>>

Sleeping(t) == ft[t].pc \in { "gate", "backoff" }

Older(a) == Min(a + 1, throttle)

\* One second passes.  A sleeper whose time is up runs before the clock
\* moves on.
Tick ==
    /\ \A t \in Tasks : Sleeping(t) => ft[t].timer > 0
    /\ \/ \E t \in Tasks : Sleeping(t)
       \/ \E h \in Throttled :
              gap[h] < throttle \/ reqAge[h] < throttle \/ gateAge[h] < throttle
    /\ ft' = [t \in Tasks |->
                IF ft[t].pc = "gate"
                THEN [ft[t] EXCEPT !.timer = @ - 1]
                ELSE IF ft[t].pc = "backoff"
                THEN [ft[t] EXCEPT !.timer = @ - 1, !.waited = @ + 1]
                ELSE ft[t]]
    /\ gap' = [h \in Throttled |-> Older(gap[h])]
    /\ reqAge' = [h \in Throttled |-> Older(reqAge[h])]
    /\ gateAge' = [h \in Throttled |-> Older(gateAge[h])]
    /\ UNCHANGED <<retries, throttle, cfg_ssl, audit, runVars, httpVars, setupVars, saveVars,
                   selVars, bfVars>>

\* Ctx.__init__ (lines 29-32) with the configuration values tried.
\* last_call is empty and time.time() is far from 0: every gap is saturated.
FetchConfig ==
    /\ retries \in 0..MaxRetries
    /\ throttle \in 1..MaxThrottle
    /\ cfg_ssl \in PolicySets
    /\ gap = [h \in Throttled |-> throttle]
    /\ ft = [t \in Tasks |-> IdleRec]
    /\ reqAge = [h \in Throttled |-> throttle]
    /\ gateAge = [h \in Throttled |-> throttle]

FetchInit == FetchConfig /\ audit = FALSE

\* The same, each call keeping the history of its writes of last_call.
AuditInit == FetchConfig /\ audit = TRUE

FetchNext ==
    \/ \E t \in Tasks : \E h \in HostsOf(t) : FetchStart(t, h)
    \/ \E t \in Tasks : GateWake(t)
    \/ \E t \in Tasks, o \in Outcomes : Respond(t, o)
    \/ \E t \in Tasks : BackoffWake(t)
    \/ \E t \in Tasks : FetchReturn(t)
    \/ Tick

\* ------------------------------------------------- collect / DataCollector
\* "legacy": collect of collector_revised.py with Ctx;
\* "ctx":    DataCollector.collect with CollectionContext.
Modes == { "legacy", "ctx" }

RunIds == 1..MaxRuns

\* The agents a configuration can enable.  In collect, "models" is the task
\* of agents.model_agent, whose done-callback starts ww3_model_fallback.
Agents == { "opc", "models" }
Fallback == "ww3_model_fallback"
TaskNames == Agents \cup { Fallback }

\* The relative paths the agents save under, each agent its own: a path is
\* the sequence of its components.
Paths == { <<"charts", "pac.png">>, <<"ww3.json">>, <<"ww3_fallback.json">> }

PathsOf(t) ==
    IF t = "opc" THEN { <<"charts", "pac.png">> }
    ELSE IF t = "models" THEN { <<"ww3.json">> }
    ELSE { <<"ww3_fallback.json">> }

\* Path.name
Basename(p) == <<p[Len(p)]>>

\* The save calls a context offers its agents.
SaveCalls(m) == IF m = "legacy" THEN { "save", "save_async" } ELSE { "ctx_save" }

\* A bundle directory of data_dir:
\*   dir      the directory exists
\*   expired  its modification time is older than the retention window
\*   files    the files agents saved in it, sub: its subdirectories
\*   meta     metadata.json: "absent", "open" (created, content not yet
\*            written) or "complete"; listed: the results it holds
NoBundle ==
    [ dir |-> FALSE, expired |-> FALSE, files |-> {}, sub |-> {},
      meta |-> "absent", listed |-> <<>> ]

NoTask == [ st |-> "off", seen |-> FALSE, out |-> <<>> ]

\* collect lines 152-173 for one directory d of data_dir: the files directly
\* in it are unlinked, then rmdir, which fails (and is logged) while the
\* directory still holds a subdirectory.
Prune(b) ==
    IF b.dir /\ b.expired
    THEN IF b.sub = {} THEN NoBundle
         ELSE [b EXCEPT !.files = { p \in b.files : Len(p) > 1 },
                        !.meta = "absent", !.listed = <<>>]
    ELSE b

\* Of the bundle of an earlier run only what a later run reads is kept.
Settled(b) == [b EXCEPT !.files = {}, !.listed = <<>>]

\* CollectionContext._prune_old_bundles: list_files is a plain function, so
\* "await list_files(...)" raises TypeError, which line 163 catches: return.
PruneOldBundles(b) == b

\* Ctx.save, Ctx.save_async and CollectionContext.save of path p into bundle
\* b: whether the call returns, the bundle afterwards and the name returned.
SaveInto(how, p, b) ==
    LET written == [b EXCEPT !.dir = TRUE, !.files = @ \cup {p},
                             !.sub = IF Len(p) > 1 THEN @ \cup {p[1]} ELSE @]
    IN  IF how = "save"
        THEN \* write_bytes: no parent is created
             IF b.dir /\ (Len(p) = 1 \/ p[1] \in b.sub)
             THEN [ ok |-> TRUE, bundle |-> written, name |-> Basename(p) ]
             ELSE [ ok |-> FALSE, bundle |-> b, name |-> <<>> ]
        ELSE IF how = "save_async"
        THEN [ ok |-> TRUE, bundle |-> written, name |-> Basename(p) ]
        ELSE [ ok |-> TRUE, bundle |-> written, name |-> p ]

\* collect lines 290-296: what the loop does with a task that is done
\*   "extend" results.extend(result)   "skip" nothing   "abort" the exception
\*   leaves the loop
OnTaskDoneNoExcept(st, out) ==
    IF st = "raised" THEN "abort"
    ELSE IF out # <<>> THEN "extend" ELSE "skip"
OnTaskDone(st, out) ==
    IF st = "raised" THEN "skip"
    ELSE IF out # <<>> THEN "extend" ELSE "skip"

\* collect lines 274-277: the done-callback of model_task starts the
\* fallback when the task raised or returned nothing.
StartsFallback(st, out) == st = "raised" \/ out = <<>>

RECURSIVE Concat(_)
Concat(ss) == IF ss = <<>> THEN <<>> ELSE Head(ss) \o Concat(Tail(ss))

\* DataCollector._create_agents appends the agents in this order.
AgentOrder == << "opc", "models" >>

\* DataCollector.collect lines 120-126: the results of the agents that
\* returned, in agent order.
Gathered ==
    Concat([ i \in 1..Len(AgentOrder) |->
               IF task[AgentOrder[i]].st = "returned"
               THEN task[AgentOrder[i]].out ELSE <<>> ])

AllSeen(tk) == \A a \in enabled : tk[a].seen

AllDone == \A a \in enabled : task[a].st \in { "returned", "raised" }

IdleWrites == [ meta |-> "idle", ptr |-> "idle" ]
TodoWrites == [ meta |-> "todo", ptr |-> "todo" ]

\* The client sessions a run opens: collect line 224; setup_http_client
\* (http.py line 61) and CollectionContext.__aenter__ (line 103).  The session
\* DataCollector.collect opens first (line 97) is closed again by the
\* setup_http_client call of __aenter__ (http.py lines 49-50) before any
\* agent runs.
SessionsOpened(m) ==
    IF m = "legacy" THEN { "session" } ELSE { "_SESSION", "http_client" }

\* The session closed next: collect lines 331-333; __aexit__ closes
\* self.http_client (line 129) and then shuts the client down (line 131).
NextToClose(ss) ==
    IF "http_client" \in ss THEN "http_client"
    ELSE IF "_SESSION" \in ss THEN "_SESSION"
    ELSE "session"

\* collect lines 319-328: every task that is still pending is cancelled.
CancelNone(tk) == tk
Cancel(tk) ==
    [t \in DOMAIN tk |->
       IF tk[t].st = "pending" THEN [tk[t] EXCEPT !.st = "cancelled"] ELSE tk[t]]

\* CollectionContext.__aexit__ lines 117-125: whether metadata is written
\* when the body was left by an exception (exc) or normally.
WritesOnExitNoExc(exc) == ~exc
WritesOnExit(exc) == IF exc THEN TRUE ELSE TRUE

\* What the caller of collect gets once both writes are done: the bundle,
\* or the exception that left the body (__aexit__ returns False, line 121).
Leaves(exc) == IF exc THEN "raised" ELSE "bundle"

\* The process has not exited.
NoExit == [ entry |-> "none", status |-> 0 ]

\* The entry points: collector_revised.py run as a script, main_async of
\* forecast_tool.collector, and run.py with --collect-only or --full-run.
\* run.py takes collect_data of forecast_tool, or collect of
\* collector_revised when that import fails (run.py lines 61-79).
Entries ==
    { "collector_revised", "forecast_tool", "run_collect_only", "run_full_run" }

EntriesOf(m) ==
    { "run_collect_only", "run_full_run" } \cup
    (IF m = "legacy" THEN { "collector_revised" } ELSE { "forecast_tool" })

\* The exit status entry point e gives for outcome r of collect ("bundle",
\* "None" or "raised"); forecast: whether the analysis of a full run gave a
\* forecast.
\*   collector_revised.py lines 353-364, forecast_tool main_async lines
\*   171-184: 0 for a bundle, 1 for None or an exception.
\*   run.py: run_collection (lines 107-121) turns an exception into None;
\*   main_async (lines 157-173) returns 1 for no bundle in a full run only.
ExitStatus(e, r, forecast) ==
    IF e \in { "collector_revised", "forecast_tool" }
    THEN IF r = "bundle" THEN 0 ELSE 1
    ELSE LET bundle == IF r = "bundle" THEN "bundle" ELSE "None"
         IN  IF e = "run_full_run"
             THEN IF bundle = "None" THEN 1
                  ELSE IF forecast THEN 0 ELSE 1
             ELSE 0

\* A run starts.  collect lines 146-290: Ctx(cfg) makes the bundle directory,
\* the expired bundles are pruned, one task is created per enabled agent and
\* the as_completed loop begins; nothing is awaited on the way.
\* DataCollector.collect lines 97-117 with CollectionContext.__aenter__.
\* With no agent enabled the run goes straight to its two writes.
CollectStart(E) ==
    /\ rpc \in { "idle", "returned" }
    /\ run < MaxRuns
    /\ LET n == run + 1
           made == [r \in RunIds |->
                      IF r = n THEN [NoBundle EXCEPT !.dir = TRUE]
                      ELSE Settled(fs[r])]
       IN /\ run' = n
          /\ fs' = [r \in RunIds |->
                      IF mode = "legacy" THEN Prune(made[r])
                      ELSE PruneOldBundles(made[r])]
    /\ enabled' = E
    /\ task' = [t \in TaskNames |->
                  IF t \in E THEN [NoTask EXCEPT !.st = "pending"] ELSE NoTask]
    /\ results' = <<>>
    /\ ret' = "none"
    /\ rpc' = IF E = {} THEN "writing" ELSE "running"
    /\ wr' = IF E = {} THEN TodoWrites ELSE IdleWrites
    /\ exit_code' = NoExit
    /\ sessions' = SessionsOpened(mode)
    /\ body_exc' = FALSE
    /\ UNCHANGED <<mode, pointer, fetchVars, httpVars,
                   setupVars, saveVars,
                   selVars, bfVars>>

TasksRun == rpc \in { "running", "writing", "finishing" }

\* An agent saves path p and notes the name the save returned in its result
\* list; a save that raises leaves no result.
AgentSave(t, p, how) ==
    /\ TasksRun
    /\ task[t].st = "pending"
    /\ Len(task[t].out) < MaxSaves
    /\ p \in PathsOf(t)
    /\ how \in SaveCalls(mode)
    /\ LET s == SaveInto(how, p, fs[run])
       IN /\ fs' = [fs EXCEPT ![run] = s.bundle]
          /\ task' = IF s.ok
                     THEN [task EXCEPT ![t].out =
                              Append(@, [ source |-> t, filename |-> s.name ])]
                     ELSE task
    /\ UNCHANGED <<mode, run, rpc, ret, enabled, results, wr, pointer,
                   endVars, fetchVars, httpVars,
                   setupVars, saveVars,
                   selVars, bfVars>>

\* The task of agent t ends in state st; the done-callback of the model task
\* runs with it.
Ended(t, st) ==
    LET tk == [task EXCEPT ![t].st = st]
    IN  IF mode = "legacy" /\ t = "models" /\ StartsFallback(st, task[t].out)
        THEN [tk EXCEPT ![Fallback] = [NoTask EXCEPT !.st = "pending"]]
        ELSE tk

\* An agent returns its result list.
AgentReturn(t) ==
    /\ TasksRun
    /\ task[t].st = "pending"
    /\ task' = Ended(t, "returned")
    /\ UNCHANGED <<mode, run, rpc, ret, enabled, results, wr, fs, pointer,
                   endVars, fetchVars, httpVars,
                   setupVars, saveVars,
                   selVars, bfVars>>

\* An agent raises.
AgentRaise(t) ==
    /\ TasksRun
    /\ task[t].st = "pending"
    /\ task' = Ended(t, "raised")
    /\ UNCHANGED <<mode, run, rpc, ret, enabled, results, wr, fs, pointer,
                   endVars, fetchVars, httpVars,
                   setupVars, saveVars,
                   selVars, bfVars>>

\* collect lines 290-308: the loop takes the next finished task of the list
\* it was given; after the last one the two writes are started together.
AsCompleted(a) ==
    /\ mode = "legacy"
    /\ rpc = "running"
    /\ a \in enabled
    /\ task[a].st \in { "returned", "raised" }
    /\ ~task[a].seen
    /\ LET k == OnTaskDone(task[a].st, task[a].out)
           tk == [task EXCEPT ![a].seen = TRUE]
       IN /\ task' = tk
          /\ results' = IF k = "extend" THEN results \o task[a].out ELSE results
          /\ rpc' = IF k = "abort" THEN "finishing"
                    ELSE IF AllSeen(tk) THEN "writing" ELSE "running"
          /\ ret' = IF k = "abort" THEN "None" ELSE ret
          /\ wr' = IF k # "abort" /\ AllSeen(tk) THEN TodoWrites ELSE wr
    /\ UNCHANGED <<mode, run, enabled, fs, pointer, endVars, fetchVars, httpVars,
                   setupVars, saveVars,
                   selVars, bfVars>>

\* DataCollector.collect lines 117-129 and __aexit__: gather has every
\* outcome, the results of the agents that returned are added to the context
\* and _write_metadata begins.
GatherDone ==
    /\ mode = "ctx"
    /\ rpc = "running"
    /\ AllDone
    /\ task' = [t \in TaskNames |->
                  IF t \in enabled THEN [task[t] EXCEPT !.seen = TRUE] ELSE task[t]]
    /\ results' = Gathered
    /\ rpc' = "writing"
    /\ wr' = TodoWrites
    /\ UNCHANGED <<mode, run, ret, enabled, fs, pointer, endVars, fetchVars, httpVars,
                   setupVars, saveVars,
                   selVars, bfVars>>

\* An exception leaves the body of "async with CollectionContext" after
\* gather (DataCollector.collect lines 120-126: add_results raises on a
\* result it cannot take), k results having been added.  __aexit__ gets the
\* exception (lines 117-121).
BodyRaises(k) ==
    /\ mode = "ctx"
    /\ rpc = "running"
    /\ AllDone
    /\ k \in 0..Len(Gathered)
    /\ task' = [t \in TaskNames |->
                  IF t \in enabled THEN [task[t] EXCEPT !.seen = TRUE] ELSE task[t]]
    /\ results' = SubSeq(Gathered, 1, k)
    /\ body_exc' = TRUE
    /\ IF WritesOnExit(TRUE)
       THEN rpc' = "writing" /\ wr' = TodoWrites /\ ret' = ret
       ELSE rpc' = "finishing" /\ wr' = wr /\ ret' = "raised"
    /\ UNCHANGED <<mode, run, enabled, fs, pointer, exit_code, sessions,
                   fetchVars, httpVars,
                   setupVars, saveVars,
                   selVars, bfVars>>

\* collect line 308 runs the two writes side by side;
\* CollectionContext._write_metadata (lines 143-146) writes the pointer after
\* metadata.json.
PointerMayStart == mode = "legacy" \/ wr.meta = "done"

Writing == rpc \in { "writing", "finishing" }

\* Both writes are done: collect returns the bundle (line 311).
Finished(w) == IF rpc = "writing" /\ w.meta = "done" /\ w.ptr = "done"
               THEN "finishing" ELSE rpc

\* write_file_async / write_file: the file is opened (created or truncated)
MetaOpen ==
    /\ Writing
    /\ wr.meta = "todo"
    /\ wr' = [wr EXCEPT !.meta = "open"]
    /\ fs' = [fs EXCEPT ![run].dir = TRUE, ![run].meta = "open",
                        ![run].listed = <<>>]
    /\ UNCHANGED <<mode, run, rpc, ret, enabled, task, results, pointer,
                   endVars, fetchVars, httpVars,
                   setupVars, saveVars,
                   selVars, bfVars>>

\* ... and its content is written.
MetaWrite ==
    /\ Writing
    /\ wr.meta = "open"
    /\ LET w == [wr EXCEPT !.meta = "done"]
       IN /\ wr' = w
          /\ rpc' = Finished(w)
          /\ ret' = IF Finished(w) # rpc THEN Leaves(body_exc) ELSE ret
    /\ fs' = [fs EXCEPT ![run].meta = "complete", ![run].listed = results]
    /\ UNCHANGED <<mode, run, enabled, task, results, pointer,
                   endVars, fetchVars, httpVars,
                   setupVars, saveVars,
                   selVars, bfVars>>

PointerOpen ==
    /\ Writing
    /\ wr.ptr = "todo"
    /\ PointerMayStart
    /\ wr' = [wr EXCEPT !.ptr = "open"]
    /\ pointer' = [ st |-> "open", id |-> 0 ]
    /\ UNCHANGED <<mode, run, rpc, ret, enabled, task, results, fs,
                   endVars, fetchVars, httpVars,
                   setupVars, saveVars,
                   selVars, bfVars>>

PointerWrite ==
    /\ Writing
    /\ wr.ptr = "open"
    /\ LET w == [wr EXCEPT !.ptr = "done"]
       IN /\ wr' = w
          /\ rpc' = Finished(w)
          /\ ret' = IF Finished(w) # rpc THEN Leaves(body_exc) ELSE ret
    /\ pointer' = [ st |-> "complete", id |-> run ]
    /\ UNCHANGED <<mode, run, enabled, task, results, fs,
                   endVars, fetchVars, httpVars,
                   setupVars, saveVars,
                   selVars, bfVars>>

\* A write raises (disk full, permissions): gather or _write_metadata lets
\* the exception through.  collect catches it and returns None (lines
\* 313-315); DataCollector.collect lets it out.
WriteFails(w) ==
    /\ rpc = "writing"
    /\ wr[w] \in { "todo", "open" }
    /\ w = "ptr" => PointerMayStart
    /\ wr' = [wr EXCEPT ![w] = "failed"]
    /\ rpc' = "finishing"
    /\ ret' = IF mode = "legacy" THEN "None" ELSE "raised"
    /\ UNCHANGED <<mode, run, enabled, task, results, fs, pointer,
                   endVars, fetchVars, httpVars,
                   setupVars, saveVars,
                   selVars, bfVars>>

\* collect lines 317-328: what is still pending is cancelled, the tasks of
\* the agents and the write that gather left behind.  With CollectionContext
\* the writes have ended and __aexit__ goes on to its finally (line 126).
Teardown ==
    /\ rpc = "finishing"
    /\ rpc' = "closing"
    /\ task' = Cancel(task)
    /\ wr' = [w \in DOMAIN wr |->
                IF wr[w] \in { "todo", "open" } THEN "cancelled" ELSE wr[w]]
    /\ UNCHANGED <<mode, run, ret, enabled, results, fs, pointer,
                   endVars, fetchVars, httpVars,
                   setupVars, saveVars,
                   selVars, bfVars>>

\* collect lines 330-337 / CollectionContext.__aexit__ lines 126-131 and
\* DataCollector.collect lines 130-132: the next session is closed; after
\* the last one collect returns or raises.
CloseSession ==
    /\ rpc = "closing"
    /\ sessions # {}
    /\ LET left == sessions \ { NextToClose(sessions) }
       IN /\ sessions' = left
          /\ rpc' = IF left = {} THEN "returned" ELSE "closing"
    /\ UNCHANGED <<mode, run, ret, enabled, task, results, wr, fs, pointer,
                   exit_code, body_exc, fetchVars, httpVars,
                   setupVars, saveVars,
                   selVars, bfVars>>

\* The process exits: entry point e turns what collect gave into the exit
\* status.
Exit(e, forecast) ==
    /\ rpc = "returned"
    /\ exit_code = NoExit
    /\ e \in EntriesOf(mode)
    /\ exit_code' = [ entry |-> e, status |-> ExitStatus(e, ret, forecast) ]
    /\ UNCHANGED <<mode, run, rpc, ret, enabled, task, results, wr, fs, pointer,
                   sessions, body_exc, fetchVars, httpVars,
                   setupVars, saveVars,
                   selVars, bfVars>>

\* Between two runs more than the retention window passes.
Age ==
    /\ rpc \in { "idle", "returned" }
    /\ run < MaxRuns
    /\ \E r \in RunIds : fs[r].dir /\ ~fs[r].expired
    /\ fs' = [r \in RunIds |->
                IF fs[r].dir THEN [fs[r] EXCEPT !.expired = TRUE] ELSE fs[r]]
    /\ UNCHANGED <<mode, run, rpc, ret, enabled, task, results, wr, pointer,
                   endVars, fetchVars, httpVars,
                   setupVars, saveVars,
                   selVars, bfVars>>

\* An empty data_dir and no run yet; the collector in use is chosen.
RunInit ==
    /\ mode \in Modes
    /\ run = 0
    /\ rpc = "idle"
    /\ ret = "none"
    /\ enabled = {}
    /\ task = [t \in TaskNames |-> NoTask]
    /\ results = <<>>
    /\ wr = IdleWrites
    /\ fs = [r \in RunIds |-> NoBundle]
    /\ pointer = [ st |-> "absent", id |-> 0 ]
    /\ exit_code = NoExit
    /\ sessions = {}
    /\ body_exc = FALSE

RunNext ==
    \/ \E E \in SUBSET Agents : CollectStart(E)
    \/ \E t \in TaskNames, p \in Paths, how \in { "save", "save_async", "ctx_save" } :
           AgentSave(t, p, how)
    \/ \E t \in TaskNames : AgentReturn(t)
    \/ \E t \in TaskNames : AgentRaise(t)
    \/ \E a \in Agents : AsCompleted(a)
    \/ GatherDone
    \/ \E k \in 0..(MaxSaves * Cardinality(Agents)) : BodyRaises(k)
    \/ MetaOpen
    \/ MetaWrite
    \/ PointerOpen
    \/ PointerWrite
    \/ \E w \in { "meta", "ptr" } : WriteFails(w)
    \/ Teardown
    \/ CloseSession
    \/ \E e \in Entries, forecast \in BOOLEAN : Exit(e, forecast)
    \/ Age

\* --------------------------------------------- forecast_tool/utils/http.py
\* The processes that call http_get / http_post concurrently.
Callers == { "c1", "c2", "c3" }

\* The network locations (urlparse(url).netloc) requested.
HttpHosts ==
    { <<"windy", "com">>,
      <<"api", "windy", "com">>,
      <<"tgftp", "nws", "noaa", "gov">> }

\* DataCollector.collect line 101: rate_limits = {"windy.com": ...}
RateLimitKeys == { <<"windy", "com">> }

\* setup_http_client line 78: the domains that get a semaphore
SemaphoreKeys(ssl_exceptions) == ssl_exceptions \cup RateLimitKeys

IdleCaller == [ pc |-> "idle", host |-> <<>>, holds |-> "none" ]

\* _with_domain_semaphore (lines 160-170) for caller record r and domain h,
\* given the semaphores sems: the caller's record and the semaphores after
\* "async with" has been entered or has blocked.  A domain without a
\* semaphore of its own gets a new Semaphore(DefaultSemaphore) in each call.
WithDomainSemaphore(r, h, sems) ==
    IF h \in DOMAIN sems
    THEN IF sems[h] > 0
         THEN [ caller |-> [r EXCEPT !.pc = "inflight", !.holds = "domain"],
                sems |-> [sems EXCEPT ![h] = @ - 1] ]
         ELSE [ caller |-> [r EXCEPT !.pc = "sem_wait"], sems |-> sems ]
    ELSE LET default_semaphore == DefaultSemaphore
         IN  IF default_semaphore > 0
             THEN [ caller |-> [r EXCEPT !.pc = "inflight", !.holds = "default"],
                    sems |-> sems ]
             ELSE [ caller |-> [r EXCEPT !.pc = "sem_wait"], sems |-> sems ]

\* _wait_for_rate_limit (lines 138-146) followed by _with_domain_semaphore:
\* the limiter is taken and its release is scheduled (call_later), or the
\* caller blocks on it.
PastRateLimit(c, r, h) ==
    IF h \in DOMAIN rate_limiters /\ rate_limiters[h] = 0
    THEN /\ hc' = [hc EXCEPT ![c] = [r EXCEPT !.pc = "rate_wait"]]
         /\ UNCHANGED <<rate_limiters, rate_release, domain_semaphores, pass_age>>
    ELSE LET w == WithDomainSemaphore(r, h, domain_semaphores)
         IN /\ hc' = [hc EXCEPT ![c] = w.caller]
            /\ domain_semaphores' = w.sems
            /\ IF h \in DOMAIN rate_limiters
               THEN /\ rate_limiters' = [rate_limiters EXCEPT ![h] = @ - 1]
                    /\ rate_release' = [rate_release EXCEPT ![h] = @ + 1]
                    /\ pass_age' = [pass_age EXCEPT ![h] = 0]
               ELSE UNCHANGED <<rate_limiters, rate_release, pass_age>>

\* http_get / http_post (lines 203-238) up to the first point it waits at.
http_get(c, h) ==
    /\ hc[c].pc = "idle"
    /\ PastRateLimit(c, [IdleCaller EXCEPT !.host = h], h)
    /\ UNCHANGED <<concurrent_requests, http_ssl, rate_limits, fetchVars, runVars, setupVars, saveVars,
                   selVars, bfVars>>

\* rate_limiter.acquire() returns.
RateWake(c) ==
    /\ hc[c].pc = "rate_wait"
    /\ rate_limiters[hc[c].host] > 0
    /\ PastRateLimit(c, hc[c], hc[c].host)
    /\ UNCHANGED <<concurrent_requests, http_ssl, rate_limits, fetchVars, runVars, setupVars, saveVars,
                   selVars, bfVars>>

\* The release scheduled in line 146 runs.
RateRelease(d) ==
    /\ rate_release[d] > 0
    /\ rate_release' = [rate_release EXCEPT ![d] = @ - 1]
    /\ rate_limiters' = [rate_limiters EXCEPT ![d] = @ + 1]
    /\ UNCHANGED <<concurrent_requests, http_ssl, domain_semaphores, hc,
                   rate_limits, pass_age, fetchVars, runVars, setupVars, saveVars,
                   selVars, bfVars>>

\* The domain's semaphore lets the caller in.
SemWake(c) ==
    /\ hc[c].pc = "sem_wait"
    /\ hc[c].host \in DOMAIN domain_semaphores
    /\ domain_semaphores[hc[c].host] > 0
    /\ LET w == WithDomainSemaphore(hc[c], hc[c].host, domain_semaphores)
       IN /\ hc' = [hc EXCEPT ![c] = w.caller]
          /\ domain_semaphores' = w.sems
    /\ UNCHANGED <<concurrent_requests, http_ssl, rate_limiters, rate_release,
                   rate_limits, pass_age, fetchVars, runVars, setupVars, saveVars,
                   selVars, bfVars>>

\* The request ends (a response or an exception): "async with" releases the
\* semaphore it holds.
HttpResponse(c) ==
    /\ hc[c].pc = "inflight"
    /\ hc' = [hc EXCEPT ![c] = IdleCaller]
    /\ domain_semaphores' =
          IF hc[c].holds = "domain"
          THEN [domain_semaphores EXCEPT ![hc[c].host] = @ + 1]
          ELSE domain_semaphores
    /\ UNCHANGED <<concurrent_requests, http_ssl, rate_limiters, rate_release,
                   rate_limits, pass_age, fetchVars, runVars, setupVars, saveVars,
                   selVars, bfVars>>

\* A second passes.  The release of line 146 is scheduled with a delay of
\* 0, so it runs in the next iteration of the loop, before the clock moves.
\* The age stops counting at MaxThrottle.
HttpTick ==
    /\ \A d \in RateLimitKeys : rate_release[d] = 0
    /\ \E d \in RateLimitKeys : pass_age[d] < MaxThrottle
    /\ pass_age' = [d \in RateLimitKeys |->
                       IF pass_age[d] < MaxThrottle THEN pass_age[d] + 1
                       ELSE pass_age[d]]
    /\ UNCHANGED <<concurrent_requests, http_ssl, domain_semaphores,
                   rate_limiters, rate_release, hc, rate_limits,
                   fetchVars, runVars, setupVars, saveVars, selVars, bfVars>>

\* setup_http_client (lines 47-79) with the arguments tried.
HttpInit ==
    /\ concurrent_requests \in 1..MaxConcurrent
    /\ http_ssl \in PolicySets
    /\ domain_semaphores = [d \in SemaphoreKeys(http_ssl) |-> concurrent_requests]
    /\ rate_limiters = [d \in RateLimitKeys |-> 1]
    /\ rate_release = [d \in RateLimitKeys |-> 0]
    /\ hc = [c \in Callers |-> IdleCaller]
    /\ rate_limits \in [RateLimitKeys -> 1..MaxThrottle]
    /\ pass_age = [d \in RateLimitKeys |-> MaxThrottle]

HttpNext ==
    \/ \E c \in Callers, h \in HttpHosts : http_get(c, h)
    \/ \E c \in Callers : RateWake(c)
    \/ \E d \in RateLimitKeys : RateRelease(d)
    \/ \E c \in Callers : SemWake(c)
    \/ \E c \in Callers : HttpResponse(c)
    \/ HttpTick

\* ------------------------------------------------ setup: retention pruning
BundleIds == 1..MaxBundles

\* The values --cache-days is given (argparse type=int takes any integer).
CacheDays == 0..MaxDays

\* The paths the agents of a run save under.
SetupPaths == PathsOf("opc") \cup PathsOf("models")

\* mtime < now - timedelta(days), for a directory whose mtime lies a whole
\* days and a fraction back: the directory was made or written before the
\* clock is read, so the fraction is positive.
OlderThan(a, days) == a >= days

\* The retention window the pruner compares with: args.cache_days in collect
\* (line 149); the literal of __aenter__ (line 106) with CollectionContext,
\* whatever the command line says.
RetentionWindow(m, N) == IF m = "legacy" THEN N ELSE DefaultRetention

\* A failure met while pruning: the operation of kind on bundle directory at
\* raises (permissions, a directory another process removes meanwhile).
\*   "inspect" d.stat() of line 155      "list"   d.iterdir() of line 162
\*   "empty"   f.unlink() of line 165    "remove" d.rmdir() of line 170
NoFault == [ at |-> 0, kind |-> "none" ]
Faults ==
    { NoFault } \cup
    { [ at |-> r, kind |-> k ] :
        r \in BundleIds, k \in { "inspect", "list", "empty", "remove" } }

\* collect lines 159-173 for an expired directory on which the operation of
\* kind k fails: a failed unlink is logged (lines 166-167) and the rmdir that
\* follows fails on the directory that is not empty (lines 171-172); a failed
\* rmdir is logged after the files are gone.
PruneFaulty(b, k) ==
    IF ~(b.dir /\ b.expired) THEN b
    ELSE IF k = "empty" THEN b
    ELSE IF k = "remove"
    THEN [b EXCEPT !.files = { p \in b.files : Len(p) > 1 },
                   !.meta = "absent", !.listed = <<>>]
    ELSE b

\* Whether the failure lets an exception out of collect: lines 153-156 and
\* the iterdir of line 162 stand outside every try.
Raises(k) == k = "inspect" \/ k = "list"

\* The setup of an invocation with --cache-days N: the bundle directory is
\* made (Ctx.__init__ line 27, __aenter__ line 91) and the pruner runs over
\* every directory of data_dir, the new one included (collect lines 149-173,
\* _prune_old_bundles).  Unlinking a file touches the mtime of its directory.
\* f is the failure met, before the directories pruned ahead of the one whose
\* listing fails (iterdir yields the directories in arbitrary order).
\* _prune_old_bundles returns at line 165 before it touches any directory.
Setup(N, f, before) ==
    /\ bundles < MaxBundles
    /\ LET cur == bundles + 1
           w == RetentionWindow(setup_mode, N)
           ages == [r \in BundleIds |-> IF r = cur THEN 0 ELSE age[r]]
           here == [r \in BundleIds |->
                      IF r = cur
                      THEN [NoBundle EXCEPT !.dir = TRUE,
                                            !.expired = OlderThan(ages[r], w)]
                      ELSE [data_dir[r] EXCEPT
                              !.expired = data_dir[r].dir /\ OlderThan(ages[r], w)]]
           raised == f # NoFault /\ Raises(f.kind)
           pruned == [r \in BundleIds |->
                        IF setup_mode # "legacy" THEN PruneOldBundles(here[r])
                        ELSE IF f = NoFault THEN Prune(here[r])
                        ELSE IF raised
                        THEN IF r \in before THEN Prune(here[r]) ELSE here[r]
                        ELSE IF r = f.at THEN PruneFaulty(here[r], f.kind)
                        ELSE Prune(here[r])]
       IN /\ f # NoFault =>
                /\ setup_mode = "legacy"
                /\ f.at # cur /\ here[f.at].dir
                /\ f.kind # "inspect" => here[f.at].expired
                /\ f.kind = "empty" => \E p \in here[f.at].files : Len(p) = 1
          /\ before \subseteq { r \in BundleIds \ { f.at } : here[r].dir /\ here[r].expired }
          /\ before # {} => f.kind = "list"
          /\ bundles' = cur
          /\ cache_days' = N
          /\ data_dir' = [r \in BundleIds |-> [pruned[r] EXCEPT !.expired = FALSE]]
          /\ age' = [r \in BundleIds |->
                       IF ~pruned[r].dir \/ pruned[r].files # here[r].files
                       THEN 0 ELSE ages[r]]
          /\ setup_out' = [ ret |-> IF raised THEN "raised" ELSE "ok", fault |-> f ]
    /\ UNCHANGED <<setup_mode, fetchVars, runVars, httpVars, saveVars,
                   selVars, bfVars>>

\* An agent of the current run saves a file into the bundle.
Populate(p, how) ==
    /\ bundles >= 1
    /\ setup_out.ret = "ok"
    /\ p \in SetupPaths
    /\ how \in SaveCalls(setup_mode)
    /\ LET s == SaveInto(how, p, data_dir[bundles])
       IN /\ s.ok
          /\ s.bundle # data_dir[bundles]
          /\ data_dir' = [data_dir EXCEPT ![bundles] = s.bundle]
          /\ age' = [age EXCEPT ![bundles] = 0]
    /\ UNCHANGED <<setup_mode, cache_days, bundles, setup_out, fetchVars, runVars,
                   httpVars, saveVars,
                   selVars, bfVars>>

\* A day passes between two invocations.
DayPasses ==
    /\ bundles >= 1
    /\ bundles < MaxBundles
    /\ \E r \in BundleIds : data_dir[r].dir /\ age[r] < MaxAge
    /\ age' = [r \in BundleIds |->
                 IF data_dir[r].dir THEN Min(age[r] + 1, MaxAge) ELSE age[r]]
    /\ UNCHANGED <<setup_mode, cache_days, bundles, data_dir, setup_out, fetchVars,
                   runVars, httpVars, saveVars,
                   selVars, bfVars>>

\* The bundle an earlier invocation left: one file, saved under a flat name
\* as the agents of src/agents do.
LeftBundle == [NoBundle EXCEPT !.dir = TRUE, !.files = PathsOf("models")]

\* No invocation under way; data_dir is empty or holds the bundle of an
\* earlier invocation, of any age.
SetupInit ==
    /\ setup_mode \in Modes
    /\ cache_days = MaxDays
    /\ bundles \in { 0, 1 }
    /\ data_dir = [r \in BundleIds |-> IF r <= bundles THEN LeftBundle ELSE NoBundle]
    /\ \E a \in 0..MaxAge :
          age = [r \in BundleIds |-> IF r <= bundles THEN a ELSE 0]
    /\ setup_out = [ ret |-> "none", fault |-> NoFault ]

SetupNext ==
    \/ \E N \in CacheDays, f \in Faults, before \in SUBSET BundleIds :
           Setup(N, f, before)
    \/ \E p \in Paths, how \in { "save", "save_async", "ctx_save" } : Populate(p, how)
    \/ DayPasses

\* ------------------------------------------------------ save: file contents
\* The agents that save into the bundle of one run.
Savers == { "a1", "a2" }

\* The names saved under: a flat one and one with a subdirectory component.
SavePaths == { <<"f.json">>, <<"sub", "f.json">> }

\* The payloads: units is the content, one element per block written; kind
\* is the Python type of the data argument.
Payloads ==
    { [ units |-> <<1, 1>>, kind |-> "bytes" ],
      [ units |-> <<2>>, kind |-> "text" ],
      [ units |-> <<3, 3>>, kind |-> "text" ] }

\* A file of the bundle: data is its content; last is the payload of the
\* last save call for it that returned (saved: there was one).
NoFile == [ exists |-> FALSE, data |-> <<>>, saved |-> FALSE, last |-> <<>> ]

\* A caller's save call:
\*   pc     "idle", "open" (the file is open, the write is awaited), "done"
\*          (returned name) or "raised"
\*   alone  no other call ran while this one did
\*   n      the calls it has completed
NoCall ==
    [ pc |-> "idle", how |-> "save", path |-> <<"f.json">>,
      data |-> [ units |-> <<2>>, kind |-> "text" ], name |-> <<>>,
      alone |-> TRUE, n |-> 0 ]

\* A write of w at offset 0 of a file holding old: a file opened with mode
\* "w" or "wb" has its own offset, which starts at 0.
WriteAt(old, w) == w \o SubSeq(old, Len(w) + 1, Len(old))

\* Whether f.write takes the data: Ctx.save and Ctx.save_async encode text
\* and write bytes in binary mode; write_file opens in text mode (file_io.py
\* line 137), whose write raises TypeError for bytes.
Accepts(how, kind) == how # "ctx_save" \/ kind = "text"

\* The parent directory of p exists in the bundle.
ParentExists(p, subs) == Len(p) = 1 \/ p[1] \in subs

\* The name a save call returns: path.name (collector_revised.py lines 135,
\* 141); filename (collection_context.py line 216).
ReturnedName(how, p) == IF how = "ctx_save" THEN p ELSE Basename(p)

\* The calls in progress are no longer alone once another call acts.
Joined(a) ==
    [b \in Savers |->
        IF b # a /\ sv[b].pc = "open" THEN [sv[b] EXCEPT !.alone = FALSE] ELSE sv[b]]

Quiet == \A a \in Savers : sv[a].pc # "open"

\* Ctx.save: path.write_bytes opens, truncates, writes and closes without
\* yielding to the event loop; it creates no parent directory.
SaveSync(a, p, d) ==
    /\ save_ctx = "legacy"
    /\ sv[a].pc # "open"
    /\ sv[a].n < MaxCalls
    /\ LET call == [ pc |-> "done", how |-> "save", path |-> p, data |-> d,
                     name |-> ReturnedName("save", p), alone |-> Quiet,
                     n |-> sv[a].n + 1 ]
       IN IF ParentExists(p, subdirs)
          THEN /\ disk' = [disk EXCEPT ![p] = [ exists |-> TRUE, data |-> d.units,
                                                 saved |-> TRUE, last |-> d.units ]]
               /\ sv' = [Joined(a) EXCEPT ![a] = call]
          ELSE /\ disk' = disk
               /\ sv' = [Joined(a) EXCEPT
                           ![a] = [call EXCEPT !.pc = "raised", !.name = <<>>]]
    /\ UNCHANGED <<save_ctx, subdirs, fetchVars, runVars, httpVars, setupVars,
                   selVars, bfVars>>

\* Ctx.save_async and CollectionContext.save up to the await of the write:
\* the parent directories are made (utils.py line 416, file_io.py line 134)
\* and aiofiles.open creates or truncates the file.
SaveOpen(a, how, p, d) ==
    /\ how \in SaveCalls(save_ctx) \ { "save" }
    /\ sv[a].pc # "open"
    /\ sv[a].n < MaxCalls
    /\ subdirs' = IF Len(p) > 1 THEN subdirs \cup { p[1] } ELSE subdirs
    /\ disk' = [disk EXCEPT ![p].exists = TRUE, ![p].data = <<>>]
    /\ sv' = [Joined(a) EXCEPT
                ![a] = [ pc |-> "open", how |-> how, path |-> p, data |-> d,
                         name |-> <<>>, alone |-> Quiet, n |-> sv[a].n ]]
    /\ UNCHANGED <<save_ctx, fetchVars, runVars, httpVars, setupVars,
                   selVars, bfVars>>

\* The awaited write lands, the file is closed and the call returns; or the
\* write raises and the exception leaves save.
SaveWrite(a) ==
    /\ sv[a].pc = "open"
    /\ LET c == sv[a]
       IN IF Accepts(c.how, c.data.kind)
          THEN /\ disk' = [disk EXCEPT
                             ![c.path].data = WriteAt(@, c.data.units),
                             ![c.path].saved = TRUE,
                             ![c.path].last = c.data.units]
               /\ sv' = [sv EXCEPT ![a].pc = "done",
                                   ![a].name = ReturnedName(c.how, c.path),
                                   ![a].n = @ + 1]
          ELSE /\ disk' = disk
               /\ sv' = [sv EXCEPT ![a].pc = "raised", ![a].n = @ + 1]
    /\ UNCHANGED <<save_ctx, subdirs, fetchVars, runVars, httpVars, setupVars,
                   selVars, bfVars>>

\* A bundle directory just made, no file in it, no save call yet.
SaveInit ==
    /\ save_ctx \in Modes
    /\ disk = [p \in SavePaths |-> NoFile]
    /\ subdirs = {}
    /\ sv = [a \in Savers |-> NoCall]

SaveNext ==
    \/ \E a \in Savers, p \in SavePaths, d \in Payloads : SaveSync(a, p, d)
    \/ \E a \in Savers, how \in { "save_async", "ctx_save" }, p \in SavePaths,
          d \in Payloads : SaveOpen(a, how, p, d)
    \/ \E a \in Savers : SaveWrite(a)

\* ------------------------------------------- the forecast_tool fetch path
BfHosts == { "plain.example", "exempt.example" }

\* How the call is made: BaseAgent.fetch_and_save with the session of the
\* context ("client"), BaseAgent.fetch_and_save without it, through the
\* global utility ("global"), or utils.http.fetch called by an agent
\* ("utils").
BfVias == { "client", "global", "utils" }

\* The verify_ssl argument of the caller.
VerifyArgs == { "none", "true", "false" }

BfStatuses == { "200", "404", "403", "429", "500" }

\* asyncio.TimeoutError and aiohttp.ClientError
BfErrors == { "timeout", "conn" }

\* stop_after_attempt(3) of http_retry and of the decorator of http_get
StopAfterAttempt == 3

\* wait_exponential(multiplier=1, min=1, max=60) after attempt n
WaitExponential(n) ==
    LET w == 2 ^ (n - 1)
    IN IF w < 1 THEN 1 ELSE IF w > 60 THEN 60 ELSE w

BfIdleRec ==
    [ pc |-> "idle", via |-> "client", verify_ssl |-> "none",
      host |-> "plain.example", outer |-> 1, inner |-> 1, requests |-> 0,
      ssl |-> "unset", status |-> "none", waits |-> <<>>, result |-> "pending" ]

\* The ssl argument of the request: BaseAgent.fetch passes
\* `None if verify_ssl else False` to the session of the context; http_get
\* takes the context of the policy for the domain and replaces it by a
\* no-verify context when verify_ssl is False.
SslOf(via, v, h, policy) ==
    IF via = "client"
    THEN IF v = "true" THEN "verify" ELSE "noverify"
    ELSE IF v = "false" \/ h \in policy THEN "noverify" ELSE "verify"

\* The exception an outcome becomes: a status outside 2xx is a ValueError
\* (BaseAgent.fetch line 180, utils.http.fetch line 365).
Raised(o) ==
    IF o = "200" THEN "none"
    ELSE IF o \in BfErrors THEN "ClientError" ELSE "ValueError"

\* retry_if_exception_type of http_retry, which decorates BaseAgent.fetch.
OuterRetries(e) == e \in { "ClientError", "ValueError" }

\* retry_if_exception_type of the decorator of http_get.
InnerRetries(e) == e = "ClientError"

\* What the caller gets when the call gives up: fetch_and_save catches every
\* exception and returns None; utils.http.fetch lets it propagate.
GiveUp(via) == IF via = "utils" THEN "raised" ELSE "None"

\* An agent calls fetch_and_save(ctx, url, ...) or fetch(url, ...).
BfCall(via, v, h) ==
    /\ bf.pc = "idle"
    /\ bf' = [BfIdleRec EXCEPT !.pc = "attempt", !.via = via,
                               !.verify_ssl = v, !.host = h]
    /\ UNCHANGED <<max_retries, bf_policy, fetchVars, runVars, httpVars,
                   setupVars, saveVars, selVars>>

\* One request is issued and its outcome handled by the decorators.
BfRespond(o) ==
    /\ bf.pc = "attempt"
    /\ LET e == Raised(o)
           r == [bf EXCEPT !.requests = @ + 1, !.status = o,
                           !.ssl = SslOf(bf.via, bf.verify_ssl, bf.host, bf_policy)]
           inner_again == bf.via # "client" /\ InnerRetries(e)
                          /\ bf.inner < StopAfterAttempt
           \* what leaves http_get: the exception itself, or RetryError once
           \* its attempts are used up
           out == IF bf.via # "client" /\ InnerRetries(e) THEN "RetryError" ELSE e
           outer_again == bf.via # "utils" /\ OuterRetries(out)
                          /\ bf.outer < StopAfterAttempt
       IN bf' =
            IF e = "none"
            THEN [r EXCEPT !.pc = "done", !.result = "data"]
            ELSE IF inner_again
            THEN [r EXCEPT !.pc = "backoff", !.inner = @ + 1,
                           !.waits = Append(@, WaitExponential(bf.inner))]
            ELSE IF outer_again
            THEN [r EXCEPT !.pc = "backoff", !.outer = @ + 1, !.inner = 1,
                           !.waits = Append(@, WaitExponential(bf.outer))]
            ELSE [r EXCEPT !.pc = "done", !.result = GiveUp(bf.via)]
    /\ UNCHANGED <<max_retries, bf_policy, fetchVars, runVars, httpVars,
                   setupVars, saveVars, selVars>>

\* The backoff sleep of tenacity is over: the next attempt starts.
BfWake ==
    /\ bf.pc = "backoff"
    /\ bf' = [bf EXCEPT !.pc = "attempt"]
    /\ UNCHANGED <<max_retries, bf_policy, fetchVars, runVars, httpVars,
                   setupVars, saveVars, selVars>>

\* The settings are loaded: general.max_retries and the ssl_exceptions.
BfInit ==
    /\ max_retries \in 1..MaxRetries
    /\ bf_policy \in SUBSET BfHosts
    /\ bf = BfIdleRec

BfNext ==
    \/ \E via \in BfVias, v \in VerifyArgs, h \in BfHosts : BfCall(via, v, h)
    \/ \E o \in BfStatuses \cup BfErrors : BfRespond(o)
    \/ BfWake

\* ------------------------------------------------------- agent selection
\* The feature flags read.  collect starts twelve agents on a bare flag
\* (lines 229-262), all by the same statement: opc, buoys and windy stand
\* for them.
SourceFlags(m) ==
    IF m = "legacy"
    THEN { "enable_opc", "enable_buoys", "enable_windy", "enable_ecmwf",
           "enable_stormglass", "enable_models", "enable_ecmwf_alt" }
    ELSE { "enable_buoys", "enable_opc", "enable_wpc", "enable_models",
           "enable_pacioos", "enable_pacioos_swan", "enable_ecmwf",
           "enable_windy", "enable_open_meteo", "enable_stormglass",
           "enable_surfline", "enable_north_pacific", "enable_southern_ocean" }

ApiKeys(m) == IF m = "legacy" THEN { "ECMWF_KEY", "STORMGLASS_KEY" } ELSE {}

\* The agents of each collector: the coroutines of the agents module, the
\* agent classes of forecast_tool.
AgentsOf(m) ==
    IF m = "legacy"
    THEN { "opc", "buoys", "windy", "ecmwf_wave", "stormglass", "model_agent",
           "ecmwf_agent" }
    ELSE { "BuoyAgent", "ChartAgent", "ModelAgent", "ApiAgent", "RegionAgent" }

\* The feature flags of an agent: the flag collect tests before it creates
\* the task; the flags the agent's enabled property reads (buoy_agent.py line
\* 54, chart_agent.py lines 29-231, model_agent.py lines 54-59, api_agent.py
\* lines 93-98, region_agent.py lines 36-39).
FlagsOf(a) ==
    IF a = "opc" THEN { "enable_opc" }
    ELSE IF a = "buoys" THEN { "enable_buoys" }
    ELSE IF a = "windy" THEN { "enable_windy" }
    ELSE IF a = "ecmwf_wave" THEN { "enable_ecmwf" }
    ELSE IF a = "stormglass" THEN { "enable_stormglass" }
    ELSE IF a = "model_agent" THEN { "enable_models" }
    ELSE IF a = "ecmwf_agent" THEN { "enable_ecmwf_alt" }
    ELSE IF a = "BuoyAgent" THEN { "enable_buoys" }
    ELSE IF a = "ChartAgent"
    THEN { "enable_opc", "enable_wpc", "enable_models", "enable_southern_ocean" }
    ELSE IF a = "ModelAgent"
    THEN { "enable_models", "enable_pacioos", "enable_pacioos_swan", "enable_ecmwf" }
    ELSE IF a = "ApiAgent"
    THEN { "enable_windy", "enable_open_meteo", "enable_stormglass", "enable_surfline" }
    ELSE { "enable_north_pacific", "enable_southern_ocean" }

\* agent.enabled
Enabled(a, F) == FlagsOf(a) \cap F # {}

\* DataCollector._create_agents lines 49-83: the agents instantiated.
Created(F) ==
    (IF "enable_buoys" \in F THEN { "BuoyAgent" } ELSE {}) \cup
    (IF { "enable_opc", "enable_wpc", "enable_models" } \cap F # {}
     THEN { "ChartAgent" } ELSE {}) \cup
    (IF { "enable_models", "enable_pacioos", "enable_pacioos_swan",
          "enable_ecmwf" } \cap F # {}
     THEN { "ModelAgent" } ELSE {}) \cup
    (IF { "enable_windy", "enable_open_meteo", "enable_stormglass",
          "enable_surfline" } \cap F # {}
     THEN { "ApiAgent" } ELSE {}) \cup
    (IF { "enable_north_pacific", "enable_southern_ocean" } \cap F # {}
     THEN { "RegionAgent" } ELSE {})

\* The agents started with flags F and keys K: collect lines 229-286;
\* DataCollector.collect lines 108-114 over the agents created.
Started(m, F, K) ==
    IF m = "legacy"
    THEN { a \in { "opc", "buoys", "windy" } : Enabled(a, F) } \cup
         (IF "enable_ecmwf" \in F /\ "ECMWF_KEY" \in K THEN { "ecmwf_wave" } ELSE {}) \cup
         (IF "enable_stormglass" \in F /\ "STORMGLASS_KEY" \in K
          THEN { "stormglass" } ELSE {}) \cup
         (IF "enable_models" \in F
          THEN { "model_agent" } \cup
               (IF "enable_ecmwf_alt" \in F THEN { "ecmwf_agent" } ELSE {})
          ELSE {})
    ELSE { a \in Created(F) : Enabled(a, F) }

\* The orchestrator creates the tasks of the run.
Select ==
    /\ ~selected
    /\ started' = Started(sel_mode, sources, api_keys)
    /\ selected' = TRUE
    /\ UNCHANGED <<sel_mode, sources, api_keys, fetchVars, runVars, httpVars,
                   setupVars, saveVars, bfVars>>

\* A configuration is read.
SelInit ==
    /\ sel_mode \in Modes
    /\ sources \in SUBSET SourceFlags(sel_mode)
    /\ api_keys \in SUBSET ApiKeys(sel_mode)
    /\ started = {}
    /\ selected = FALSE

SelNext == Select

\* ---------------------------------------------------------- specifications
vars == <<fetchVars, runVars, httpVars, setupVars, saveVars, selVars, bfVars>>

\* The values the variables of a part keep while another part is explored.
FetchIdle ==
    /\ retries = MaxRetries
    /\ throttle = MaxThrottle
    /\ cfg_ssl = {}
    /\ gap = [h \in Throttled |-> throttle]
    /\ ft = [t \in Tasks |-> IdleRec]
    /\ reqAge = [h \in Throttled |-> throttle]
    /\ gateAge = [h \in Throttled |-> throttle]
    /\ audit = FALSE

HttpIdle ==
    /\ concurrent_requests = MaxConcurrent
    /\ http_ssl = {}
    /\ domain_semaphores = [d \in SemaphoreKeys(http_ssl) |-> concurrent_requests]
    /\ rate_limiters = [d \in RateLimitKeys |-> 1]
    /\ rate_release = [d \in RateLimitKeys |-> 0]
    /\ hc = [c \in Callers |-> IdleCaller]
    /\ rate_limits = [d \in RateLimitKeys |-> 1]
    /\ pass_age = [d \in RateLimitKeys |-> MaxThrottle]

RunIdle == RunInit /\ mode = "legacy"

SetupIdle == SetupInit /\ setup_mode = "legacy" /\ bundles = 0

SaveIdle == SaveInit /\ save_ctx = "legacy"

SelIdle == SelInit /\ sel_mode = "legacy" /\ sources = {} /\ api_keys = {}

BfIdle == BfInit /\ max_retries = 1 /\ bf_policy = {}

\* The parts other than the one explored.
OthersIdle == SelIdle /\ BfIdle

InitFetch == FetchInit /\ RunIdle /\ HttpIdle /\ SetupIdle /\ SaveIdle /\ OthersIdle

SpecFetch == InitFetch /\ [][FetchNext]_vars

\* The event loop runs every timer that is due and the clock moves on; a
\* request ends, with a response or with the timeout of line 73.
FetchFairness ==
    /\ WF_vars(Tick)
    /\ \A t \in Tasks :
          /\ WF_vars(GateWake(t))
          /\ WF_vars(BackoffWake(t))
          /\ WF_vars(\E o \in Outcomes : Respond(t, o))

SpecFetchFair == SpecFetch /\ FetchFairness

InitAudit == AuditInit /\ RunIdle /\ HttpIdle /\ SetupIdle /\ SaveIdle /\ OthersIdle

SpecAudit == InitAudit /\ [][FetchNext]_vars

InitRun == RunInit /\ FetchIdle /\ HttpIdle /\ SetupIdle /\ SaveIdle /\ OthersIdle

SpecRun == InitRun /\ [][RunNext]_vars

InitHttp == HttpInit /\ FetchIdle /\ RunIdle /\ SetupIdle /\ SaveIdle /\ OthersIdle

SpecHttp == InitHttp /\ [][HttpNext]_vars

InitSetup == SetupInit /\ FetchIdle /\ RunIdle /\ HttpIdle /\ SaveIdle /\ OthersIdle

SpecSetup == InitSetup /\ [][SetupNext]_vars

InitSave == SaveInit /\ FetchIdle /\ RunIdle /\ HttpIdle /\ SetupIdle /\ OthersIdle

SpecSave == InitSave /\ [][SaveNext]_vars

InitSel ==
    SelInit /\ FetchIdle /\ RunIdle /\ HttpIdle /\ SetupIdle /\ SaveIdle /\ BfIdle

SpecSel == InitSel /\ [][SelNext]_vars

InitBf ==
    BfInit /\ FetchIdle /\ RunIdle /\ HttpIdle /\ SetupIdle /\ SaveIdle /\ SelIdle

SpecBf == InitBf /\ [][BfNext]_vars

\* ------------------------------------------------------- claims: Ctx.fetch
Pow2Sum(k) == (2 ^ k) - 1

BackoffSeq(k) == [i \in 1..k |-> 2 ^ (i - 1)]

\* C4: one call to Ctx.fetch issues at most max_retries requests, returns
\* the body or None, never lets an exception out, and ends: every call that
\* has begun returns.
C4_Bounded ==
    \A t \in Tasks :
        /\ ft[t].reqs <= retries
        /\ ft[t].result \in { "none", "body", "None" }
        /\ ft[t].pc = "done" => ft[t].result \in { "body", "None" }
        /\ ft[t].pc \in { "inflight", "backoff" } => ft[t].attempt < retries
C4_FetchNeverRaisesAndEnds ==
    /\ []C4_Bounded
    /\ \A t \in Tasks :
          (ft[t].pc \in { "gate", "inflight", "backoff" }) ~> (ft[t].pc = "done")
\* A call that used up all its attempts on failures and returned None.
C4_Witness ==
    \E t \in Tasks :
        /\ ft[t].pc = "done" /\ ft[t].result = "None"
        /\ retries = MaxRetries /\ ft[t].reqs = retries
        /\ Len(ft[t].slept) = retries

\* C5: when the attempts 1..k of a call ended in retryable outcomes and
\* attempt k+1 gets a 200, the call returns that body after exactly k+1
\* requests, having slept 2^(i-1) seconds before its i-th retry: 2^k - 1
\* seconds of backoff in all.
C5_RetryBackoff ==
    [][ \A t \in Tasks :
          Respond(t, "200") =>
              LET k == ft[t].attempt
                  r == ft'[t]
              IN /\ k < retries
                 /\ Len(ft[t].slept) = k
                 /\ r.pc = "done" /\ r.result = "body"
                 /\ r.reqs = k + 1
                 /\ r.slept = BackoffSeq(k)
                 /\ r.waited = Pow2Sum(k) ]_vars
\* 500, 500, 200 with max_retries = 3: the body after 3 requests and 1s + 2s.
C5_Witness ==
    \E t \in Tasks :
        /\ ft[t].pc = "done" /\ ft[t].result = "body"
        /\ ft[t].reqs = 3 /\ ft[t].slept = <<1, 2>> /\ ft[t].waited = 3

\* The terminal responses of C6 for host h.
TerminalFor(o, h) ==
    \/ o \in { "404", "403" }
    \/ o = "400" /\ (HasLabel(h, "windy") \/ HasLabel(h, "stormglass"))
    \/ o \in Statuses \ { "200", "400", "429", "500" }

\* C6: on a 404, a 403, a 400 from a windy or stormglass host, or a status
\* outside {200, 400, 429, 500}, fetch returns None at once: no further
\* request and no backoff sleep for that response.
C6_TerminalStatus ==
    [][ \A t \in Tasks, o \in Statuses :
          (TerminalFor(o, ft[t].host) /\ Respond(t, o)) =>
              /\ ft'[t].pc = "done" /\ ft'[t].result = "None"
              /\ ft'[t].reqs = ft[t].reqs
              /\ ft'[t].slept = ft[t].slept
              /\ ft'[t].waited = ft[t].waited ]_vars
\* A call that returned None after one request and no sleep although two
\* more attempts were left (a 404 on the first attempt).
C6_Witness ==
    \E t \in Tasks :
        /\ ft[t].pc = "done" /\ ft[t].result = "None"
        /\ retries = 3 /\ ft[t].reqs = 1 /\ ft[t].slept = <<>>

\* C7: a request is issued with TLS verification disabled if and only if
\* its host or a parent domain of the host is in the configured no-verify
\* set.
C7_PolicyInheritance ==
    \A t \in Tasks :
        ft[t].pc = "inflight" =>
            (~ft[t].verify <=> (\E d \in ParentWalk(ft[t].host) : d \in cfg_ssl))

\* The step in which task t issues the first request of a call.
FirstRequest(t) == ft[t].reqs = 0 /\ ft'[t].reqs = 1

\* The step in which task t goes past the throttle gate (line 48).
PassesGate(t) ==
    /\ ft[t].pc \in { "idle", "gate" }
    /\ ft'[t].pc \notin { "idle", "gate" }

\* Whether another fetch to the host of t's call has been under way since
\* that call began (in the step of its first request).
Overlapped(t) ==
    IF ft[t].pc = "gate" THEN ft[t].overlap
    ELSE \E u \in Tasks \ {t} : ActiveOn(u, ft'[t].host)

NoGateForOthers ==
    \A t \in Tasks : ft[t].pc = "gate" => ft[t].host \in Throttled

\* C8: the first request of a fetch to a throttled host is issued at least
\* the throttle after the last request of the fetch to that host before it
\* (fetches one after the other, none overlapping), and a fetch to a host
\* without a throttle never waits at the gate.
C8_ThrottleBetweenFetches ==
    [][ /\ \A t \in Tasks :
             (FirstRequest(t) /\ ft'[t].host \in Throttled /\ ~Overlapped(t))
                 => reqAge[ft'[t].host] >= throttle
        /\ NoGateForOthers' ]_vars

\* Task t's call is past the throttle gate and has not returned.
PastGate(t) == ft[t].pc \in { "inflight", "backoff" }

\* C9: when fetches to one throttled host run concurrently, a fetch goes past
\* the gate while another one is past it only if no fetch to the host has
\* gone past the gate within the throttle interval: at most one fetch passes
\* the gate in any window of that length.
C9_OnePastGate ==
    [][ \A t \in Tasks :
          ( /\ PassesGate(t)
            /\ ft'[t].host \in Throttled
            /\ \E u \in Tasks \ {t} : PastGate(u) /\ ft[u].host = ft'[t].host )
              => gateAge[ft'[t].host] >= throttle ]_vars

\* C30 as stated: a call to Ctx.fetch that returns None has left the
\* last-call timestamp of every host unchanged.
C30_Original ==
    \A t \in Tasks :
        (ft[t].pc = "done" /\ ft[t].result = "None") => ~ft[t].stamped

\* C30: a call to Ctx.fetch writes a last-call timestamp exactly when a
\* response with status 200 arrives in it, whether or not the body can then
\* be read and the call returns it; the write is to the entry of the
\* requested host alone and sets it to the present time.
C30_RateStateFrame ==
    [][ /\ \A t \in Tasks : ft'[t].stamped <=> ft'[t].got200
        /\ \A h \in Throttled :
              gap'[h] < gap[h] =>
                  /\ gap'[h] = 0
                  /\ \E t \in Tasks :
                        /\ ft[t].pc = "inflight" /\ ft[t].host = h
                        /\ ft'[t].got200 /\ ft'[t].pc # "inflight"
      ]_vars

\* A call has returned None after a 200 response whose body could not be
\* read: the timestamp of its host is written.
C30_Witness ==
    \E t \in Tasks :
        /\ ft[t].pc = "done" /\ ft[t].result = "None"
        /\ ft[t].stamped /\ ft[t].host \in Throttled

\* C17: once a request to host h has failed with a certificate error in a
\* call that is still under way, every request issued to h from then on, by
\* that call or by the call of any other agent, goes out unverified.
C17_SelfHealingTls ==
    [][ \A t \in Tasks :
          ( /\ ft'[t].reqs > ft[t].reqs
            /\ \E u \in Tasks :
                  /\ ft[u].pc \notin { "idle", "done" }
                  /\ ft[u].host = ft'[t].host
                  /\ ft'[t].host \in ft[u].ssl_exception_domains )
              => ~ft'[t].verify ]_vars


\* ------------------------------------------------ claims: the orchestrator
\* The run is over, neither of its two writes raised and no exception left
\* the body of the orchestrator itself.
RanToEnd ==
    /\ rpc = "returned"
    /\ wr.meta # "failed" /\ wr.ptr # "failed"
    /\ ~body_exc

\* The results metadata.json of the current run holds.
Listed == { fs[run].listed[j] : j \in 1..Len(fs[run].listed) }

\* C1: whichever enabled agents raise, the run finalizes: collect returns
\* the bundle, metadata.json is complete and holds every result of every
\* enabled agent that returned and none of an agent that raised, and
\* latest_bundle.txt names this run (both collectors; the file system lets
\* the two writes through).
C1_PartialFailureIsolation ==
    RanToEnd =>
        /\ ret = "bundle"
        /\ fs[run].dir /\ fs[run].meta = "complete"
        /\ pointer = [ st |-> "complete", id |-> run ]
        /\ \A a \in enabled :
              /\ task[a].st \in { "returned", "raised" }
              /\ task[a].st = "returned" =>
                    \A i \in 1..Len(task[a].out) : task[a].out[i] \in Listed
              /\ task[a].st = "raised" =>
                    \A e \in Listed : e.source # a
\* A finished run of collect in which the model agent raised after it had
\* saved a file and the other agent returned a result.
C1_Witness ==
    /\ RanToEnd /\ mode = "legacy"
    /\ task["models"].st = "raised" /\ task["models"].out # <<>>
    /\ task["opc"].st = "returned" /\ task["opc"].out # <<>>
    /\ Listed # {}

\* C2: right after finalization every filename in the results of
\* metadata.json names a file that exists in the run's bundle directory.
C2_MetadataIntegrity ==
    (rpc = "returned" /\ ret = "bundle") =>
        \A e \in Listed : e.filename \in fs[run].files

\* C3: whenever latest_bundle.txt holds a run_id, the directory of that run
\* exists and holds a completely written metadata.json.
C3_LatestPointer ==
    pointer.st = "complete" =>
        /\ pointer.id \in RunIds
        /\ fs[pointer.id].dir
        /\ fs[pointer.id].meta = "complete"

\* C16: while metadata.json is being written, and once it has been, no agent
\* task started during the run is still pending and the outcome of every
\* task that ended has been taken by the orchestrator.
C16_Draining ==
    wr.meta \in { "open", "done" } =>
        \A t \in TaskNames :
            /\ task[t].st # "pending"
            /\ task[t].st \in { "returned", "raised" } => task[t].seen


\* The current run has a finalized bundle: its directory exists,
\* metadata.json is completely written and latest_bundle.txt names the run.
Finalized ==
    /\ run \in RunIds
    /\ fs[run].dir /\ fs[run].meta = "complete"
    /\ pointer = [ st |-> "complete", id |-> run ]

\* C15: an invocation exits with status 0 if and only if its run produced a
\* finalized bundle, for every entry point: collector_revised.py, main_async
\* of forecast_tool.collector, and run.py in collect-only and full-run mode.
C15_ExitCode ==
    exit_code # NoExit => (exit_code.status = 0 <=> Finalized)

\* A step that closes a client session.
ClosesSession == sessions' # sessions /\ sessions' \subseteq sessions

\* C18: when the body of "async with CollectionContext" has been left,
\* normally or by an exception, then before any client session is closed
\* metadata.json holds every result added to the context and
\* latest_bundle.txt names the run (the file system letting the two writes
\* through), and an exception that left the body reaches the caller.
C18_BestEffortMetadata ==
    [][ ( /\ mode = "ctx"
          /\ ClosesSession
          /\ wr.meta # "failed" /\ wr.ptr # "failed" )
            => /\ fs[run].meta = "complete"
               /\ fs[run].listed = results
               /\ pointer = [ st |-> "complete", id |-> run ]
               /\ ret = Leaves(body_exc) ]_vars
\* A run with CollectionContext whose body was left by an exception after a
\* result had been added: over, with that result in metadata.json.
C18_Witness ==
    /\ mode = "ctx" /\ rpc = "returned" /\ body_exc
    /\ results # <<>> /\ fs[run].listed = results
    /\ fs[run].meta = "complete" /\ ret = "raised"

\* C19: on every way out of a run no agent task is pending any more when a
\* client session is closed (what was pending has been cancelled before),
\* and no session is open once collect has returned or raised.
C19_TeardownOrder ==
    /\ [][ ClosesSession => \A t \in TaskNames : task[t].st # "pending" ]_vars
    /\ [](rpc = "returned" => sessions = {})
\* A run of collect that ended on a failed write with the fallback task
\* cancelled and the session closed.
C19_Witness ==
    /\ rpc = "returned" /\ sessions = {}
    /\ mode = "legacy"
    /\ task[Fallback].st = "cancelled"
    /\ wr.meta = "failed"

\* C22: in collect with enable_models set, once metadata.json is written:
\* if the primary model agent raised or returned an empty list, the fallback
\* agent has run to completion and every result it returned is listed in
\* metadata.json; if the primary returned results, the fallback was never
\* started.
C22_ModelFallback ==
    ( /\ mode = "legacy" /\ run >= 1 /\ "models" \in enabled
      /\ wr.meta = "done" /\ fs[run].meta = "complete" )
    => IF StartsFallback(task["models"].st, task["models"].out)
       THEN /\ task[Fallback].st = "returned"
            /\ \A i \in 1..Len(task[Fallback].out) :
                  \E j \in 1..Len(fs[run].listed) :
                      fs[run].listed[j] = task[Fallback].out[i]
       ELSE task[Fallback].st = "off"

\* The tasks of the current run that returned a result list.
ReturnedTasks == { t \in TaskNames : task[t].st = "returned" }

\* The orders in which the tasks of R can be taken.
OrdersOf(R) ==
    { ord \in [1..Cardinality(R) -> R] :
        \A i, j \in 1..Cardinality(R) : ord[i] = ord[j] => i = j }

\* C29: once metadata.json of a run whose orchestrator body ran to its end
\* is written, its results list is the concatenation, in some order of the
\* tasks, of the result lists of the tasks that returned.
C29_ResultMerge ==
    ( /\ run >= 1 /\ ~body_exc
      /\ wr.meta = "done" /\ fs[run].meta = "complete" )
    => \E ord \in OrdersOf(ReturnedTasks) :
          fs[run].listed =
             Concat([ i \in 1..Cardinality(ReturnedTasks) |-> task[ord[i]].out ])

\* --------------------------------------------------- claims: the pruner
\* A step in which an invocation's setup runs, and one in which it runs
\* without meeting a failure.
AnySetupStep == bundles' = bundles + 1
SetupStep == AnySetupStep /\ setup_out'.fault = NoFault

\* C11: the pruner run at setup removes every bundle directory older than
\* now minus the retention window it is given and keeps every newer one.
C11_Retention ==
    [][ SetupStep =>
          \A r \in BundleIds :
              (r <= bundles /\ data_dir[r].dir) =>
                  ( data_dir'[r].dir <=>
                      ~OlderThan(age[r], RetentionWindow(setup_mode, cache_days')) )
      ]_vars

\* C12: whatever the retention window, the bundle directory of the run that
\* invokes the pruner exists after setup.
C12_CurrentKept ==
    [][ SetupStep => data_dir'[bundles'].dir ]_vars

\* C20: the pruner of an invocation with --cache-days N removes a bundle
\* (one it is able to remove: no subdirectory in it) exactly when the bundle
\* is older than now minus N days.
C20_CacheDaysApplied ==
    [][ SetupStep =>
          \A r \in BundleIds :
              (r <= bundles /\ data_dir[r].dir /\ data_dir[r].sub = {}) =>
                  ( data_dir'[r].dir <=> ~OlderThan(age[r], cache_days') )
      ]_vars

\* A step in which an agent of the current run saves into its bundle.
AgentStep == bundles' = bundles /\ data_dir' # data_dir

\* C27: a failure met while pruning one expired bundle is skipped: the run
\* goes on to its agents, and every other expired bundle (one the pruner is
\* able to remove: no subdirectory in it) is removed.
C27_PruningNotFatal ==
    [][ AnySetupStep =>
          /\ setup_out'.ret = "ok"
          /\ \A r \in BundleIds \ { setup_out'.fault.at } :
                ( /\ r <= bundles /\ data_dir[r].dir /\ data_dir[r].sub = {}
                  /\ OlderThan(age[r], RetentionWindow(setup_mode, cache_days')) )
                => ~data_dir'[r].dir
      ]_vars

\* C21: the bundle directory a run's setup makes did not exist before that
\* run; it exists when the agents of the run save, and a save of the run
\* changes no bundle directory but the one of its run.
C21_BundleCreation ==
    [][ /\ SetupStep => ~data_dir[bundles'].dir
        /\ AgentStep =>
              /\ data_dir[bundles].dir
              /\ \A r \in BundleIds \ { bundles } : data_dir'[r] = data_dir[r]
      ]_vars

\* ------------------------------------- claims: the forecast_tool fetch path
\* A request of the call has just been answered.
BfAnswered == bf.pc = "attempt" /\ bf'.requests = bf.requests + 1

\* C23: every request of the forecast_tool fetch path is issued with
\* certificate verification, unless the host is in the no-verify policy or
\* the caller passed verify_ssl=False.
C23_TlsDefault ==
    bf.requests >= 1 =>
        (bf.ssl = "noverify" <=> (bf.host \in bf_policy \/ bf.verify_ssl = "false"))

\* C24: when the first response to fetch_and_save is HTTP 404 or 403, the
\* call ends at once with None: one request, no retry, no backoff wait.
C24_TerminalNoRetry ==
    [][ (BfAnswered /\ bf.requests = 0 /\ bf.via # "utils"
         /\ bf'.status \in { "404", "403" })
        => (bf'.pc = "done" /\ bf'.result = "None" /\ bf'.waits = <<>>) ]_vars

Transient == { "timeout", "conn", "429", "500" }

\* C25: a request that fails transiently is followed by a backoff wait and a
\* new attempt while fewer than general.max_retries attempts were made; the
\* attempts never exceed general.max_retries, and after the last one the
\* caller gets no data.
C25_TransientRetried ==
    [][ (BfAnswered /\ bf'.status \in Transient)
        => /\ bf'.requests <= max_retries
           /\ IF bf'.requests < max_retries
              THEN bf'.pc = "backoff" /\ Len(bf'.waits) = Len(bf.waits) + 1
              ELSE bf'.pc = "done" /\ bf'.result # "data" ]_vars

\* ------------------------------------------------ claims: agent selection
\* C28: the agents started as tasks of a run are exactly the agents whose
\* feature flag is enabled in the configuration.
C28_AgentSelection ==
    selected => started = { a \in AgentsOf(sel_mode) : Enabled(a, sources) }

\* ----------------------------------------------------- claims: save
\* The step in which a save call of caller a ends, returning or raising.
Completes(a) == sv'[a].n = sv[a].n + 1

\* The caller whose call a step belongs to.
Acts(a) == sv'[a].n # sv[a].n \/ sv'[a].pc # sv[a].pc

\* C13: a save call (no other call running meanwhile) completes without
\* error, its parent directories exist afterwards, and the file at the
\* returned name exists and holds exactly the payload given.
C13_SavePostcondition ==
    [][ \A a \in Savers :
          (Completes(a) /\ sv'[a].alone) =>
              /\ sv'[a].pc = "done"
              /\ ParentExists(sv'[a].path, subdirs')
              /\ disk'[sv'[a].name].exists
              /\ disk'[sv'[a].name].data = sv'[a].data.units
      ]_vars

\* C14: a save for one name never changes a file of another name, and once
\* no call is in progress every file saved to holds the complete payload of
\* the last call for it that returned.
C14_SaveConcurrent ==
    [][ /\ \A a \in Savers :
              Acts(a) => \A q \in SavePaths \ { sv'[a].path } : disk'[q] = disk[q]
        /\ Quiet' =>
              \A p \in SavePaths :
                  disk'[p].saved => disk'[p].exists /\ disk'[p].data = disk'[p].last
      ]_vars

\* ------------------------------------------------- claims: the HTTP client
InFlight(h) ==
    Cardinality({ c \in Callers : hc[c].pc = "inflight" /\ hc[c].host = h })

\* C10: for every host, listed in the configuration or not, the requests to
\* it that are in flight at once never exceed concurrent_requests.
C10_PerHostCap ==
    \A h \in HttpHosts : InFlight(h) <= concurrent_requests

\* A caller passes the rate limiter of domain d.
Passes(d) == rate_limiters'[d] < rate_limiters[d]

\* C26: two requests that pass the rate limiter of a domain registered with
\* interval T are at least T seconds apart, whatever the number of callers.
C26_RateSpacing ==
    [][ \A d \in RateLimitKeys : Passes(d) => pass_age[d] >= rate_limits[d] ]_vars

====
